---- MODULE Spec2Model ----
(***************************************************************************)
(* insertAutoCopyAutoDestroy.cpp: the ownership dataflow that places       *)
(* auto-destroy calls.  One function body is analysed per behaviour:       *)
(* extractSymbols, the transition scan (computeTransitions and its three   *)
(* recognizers), forwardFlowAnalysis, and the placement loop.              *)
(*                                                                         *)
(* Bit-vectors are sets of indices.  The source indexes symbols from 0,    *)
(* TLA+ sequences from 1: index j here is bit j-1 of the source, the order *)
(* is the same.                                                            *)
(***************************************************************************)
EXTENDS Naturals, Sequences, FiniteSets, TLC

VARIABLES
  proto,           \* fn->hasFlag(FLAG_FUNCTION_PROTOTYPE)
  pass,            \* which run of the pass over fn this is (1 or 2)
  defs,            \* the DefExprs of fn, in collection order
  exprs,           \* bb.exprs of every basic block (built once, never edited)
  ins,             \* bb.ins: the predecessors of every basic block
  ast,             \* the statements of fn's body, per block region (edited by insertBefore/insertAfter)
  fWarnOwnership,  \* the process-wide warning flag
  pc,              \* where insertAutoDestroy(fn) stands
  bi,              \* the block index i of the running loop
  si,              \* the expression index inside block bi during the scan
  symbols,         \* SymbolVector symbols
  aliases,         \* AliasVectorMap: symbol -> SymbolVector* (the id of a list)
  heap,            \* the SymbolVector objects behind those pointers
  GEN, KILL, IN_, OUT,  \* the four FlowSets (IN is a reserved word: IN_)
  to_kill,         \* the bit-vector last handed to the placement step
  warns,           \* the USR_WARN diagnostics emitted so far (their anchor symbols)
  err              \* why the run aborted ("" while it has not)

vars == <<proto, pass, defs, exprs, ins, ast, fWarnOwnership, pc, bi, si, symbols, aliases, heap, GEN, KILL, IN_, OUT, to_kill, warns, err>>

(***************************************************************************)
(* Bounds of the model.                                                    *)
(***************************************************************************)
\* Statements of a function body, the terminators of its blocks not counted.
MaxStmts == 3
\* Statements of the one block the placement step is called on directly.
MaxBlockLen == 2
\* Basic blocks of a control-flow graph handed to the dataflow on its own.
MaxFlowBlocks == 3

None == "-"

(***************************************************************************)
(* The IR.  A statement is [op, a, b]:                                     *)
(*   ctor   a     ('move' a (construct))     dtor a     (~R a)             *)
(*   move   a b   ('move' a b)               return a   (a = None: void)   *)
(*   goto, cond   GotoStmt, CondStmt         call       any other call     *)
(*   autoDestroy a   a call this pass inserted                             *)
(***************************************************************************)
Stmt(op, a, b) == [op |-> op, a |-> a, b |-> b]

\* A definition of the function: a symbol and whether its type is a record
\* the pass tracks ("record") or anything else ("other": a class, a
\* primitive or an extern type).
Def(name, type) == [sym |-> name, type |-> type]

(***************************************************************************)
(* extractSymbols: the variables and arguments of record type, in the      *)
(* order of their DefExprs; each starts as the only member of its own      *)
(* alias list.  A list is named after the symbol it was created for.       *)
(***************************************************************************)
extractSymbols(ds) == SelectSeq(ds, LAMBDA d : d.type = "record")

symbolsOf(ds) == [j \in 1..Len(extractSymbols(ds)) |-> extractSymbols(ds)[j].sym]

SymSet(syms) == {syms[j] : j \in 1..Len(syms)}

initAliases(syms) == [s \in SymSet(syms) |-> s]

initHeap(syms) == [s \in SymSet(syms) |-> [live |-> TRUE, items |-> <<s>>]]

\* symbolIndex.find(sym) != symbolIndex.end()
Tracked(s) == s \in SymSet(symbols)

\* symbolIndex.at(sym), for a tracked symbol
symbolIndex(s) == CHOOSE j \in 1..Len(symbols) : symbols[j] = s

\* createFlowSet: one zeroed BitVec per block
createFlowSet(nbbs) == [i \in 1..nbbs |-> {}]

(***************************************************************************)
(* The transition scan works on the record                                 *)
(*   [gen, kill: GEN[i], KILL[i];  al, hp: the alias map and its lists;    *)
(*    w: the warnings;  err: the reason of an abort].                      *)
(* A recognizer that meets an abort leaves the record as it is: nothing    *)
(* runs after INT_ASSERT fails or an exception leaves the pass.            *)
(***************************************************************************)
Abort(S, why) == [S EXCEPT !.err = why]

processConstructor(st, S) ==
  IF S.err # "" \/ st.op # "ctor" \/ ~Tracked(st.a) THEN S
  ELSE IF symbolIndex(st.a) \in S.gen
       THEN Abort(S, "INT_ASSERT(gen->get(index) == false)")
       ELSE [S EXCEPT !.gen = @ \cup {symbolIndex(st.a)}]

\* What reading a SymbolVector through pointer p can give.  A deleted list is
\* a dangling pointer: the read may still see the old elements or may see
\* none (the crash is a separate outcome, see Dangling).
ListReads(hp, p) == IF hp[p].live THEN {hp[p].items} ELSE {hp[p].items, <<>>}

Dangling(hp, p) == ~hp[p].live

\* mergeAliases(orig, alias, aliases): append alias's list to orig's, delete
\* alias's list, repoint aliases[alias] only.  With both keys on one list the
\* loop appends to the list it walks, so its bound grows with every push_back
\* and the loop ends only when the allocation fails.
mergeAliases(orig, alias, S) ==
  LET origList  == S.al[orig]
      aliasList == S.al[alias]
      merged(items) ==
        [S EXCEPT !.hp = [@ EXCEPT ![origList]  = [live |-> @.live, items |-> @.items \o items],
                                   ![aliasList] = [live |-> FALSE, items |-> @.items]],
                  !.al = [@ EXCEPT ![alias] = origList]]
  IN  IF origList = aliasList
      THEN IF Dangling(S.hp, origList)
           THEN {Abort(S, "bad_alloc"), Abort(S, "SIGSEGV")}
           ELSE {Abort(S, "bad_alloc")}
      ELSE IF Dangling(S.hp, origList) \/ Dangling(S.hp, aliasList)
           THEN {Abort(S, "SIGSEGV")} \cup {merged(items) : items \in ListReads(S.hp, aliasList)}
           ELSE {merged(S.hp[aliasList].items)}

processMove(st, S) ==
  IF S.err # "" \/ st.op # "move" \/ ~Tracked(st.a) THEN {S}
  ELSE IF ~Tracked(st.b) THEN {Abort(S, "out_of_range")}
  ELSE IF symbolIndex(st.a) \in S.gen
       THEN {Abort(S, "INT_ASSERT(gen->get(lindex) == false)")}
  ELSE LET S1 == IF symbolIndex(st.b) \notin S.gen
                 THEN IF fWarnOwnership THEN [S EXCEPT !.w = Append(@, st.b)] ELSE S
                 ELSE [S EXCEPT !.gen = @ \cup {symbolIndex(st.a)}]
       IN  mergeAliases(st.b, st.a, S1)

\* for_vector(Symbol, alias, *aliasList): set the kill bit of each element
RECURSIVE killList(_, _)
killList(items, S) ==
  IF items = <<>> \/ S.err # "" THEN S
  ELSE IF symbolIndex(Head(items)) \in S.kill
       THEN Abort(S, "INT_ASSERT(kill->get(index) == false)")
       ELSE killList(Tail(items), [S EXCEPT !.kill = @ \cup {symbolIndex(Head(items))}])

\* processDestructor(SymExpr*, ...)
processDestructorSym(sym, S) ==
  LET aliasList == S.al[sym]
  IN  (IF Dangling(S.hp, aliasList) THEN {Abort(S, "SIGSEGV")} ELSE {})
      \cup {killList(items, S) : items \in ListReads(S.hp, aliasList)}

\* processDestructor(CallExpr*, ...): a call of a destructor, or a return
processDestructor(st, S) ==
  IF S.err # "" \/ st.op \notin {"dtor", "return"} \/ ~Tracked(st.a) THEN {S}
  ELSE processDestructorSym(st.a, S)

\* computeTransitions(SymExprVector&, ...) on the symbol references of one
\* expression: the three recognizers in turn, none returns early.
computeTransitionsExpr(st, S) ==
  UNION {processDestructor(st, S2) : S2 \in processMove(st, processConstructor(st, S))}

(***************************************************************************)
(* BasicBlock::forwardFlowAnalysis(fn, GEN, KILL, IN, OUT, true), from its *)
(* contract: IN[entry] = {}, IN[b] = the intersection of OUT[p] over the   *)
(* predecessors p of b (no predecessor: {}), OUT[b] = (IN[b] \ KILL[b])    *)
(* + GEN[b], iterated from the zeroed sets until nothing changes.          *)
(***************************************************************************)
Entry == 1

RECURSIVE Meet(_, _)
Meet(P, out) ==
  IF P = {} THEN {}
  ELSE LET p == CHOOSE q \in P : TRUE
       IN  IF P = {p} THEN out[p] ELSE out[p] \cap Meet(P \ {p}, out)

flowIn(i, preds, out) == IF i = Entry THEN {} ELSE Meet(preds[i], out)

\* A wrong OUT equation: KILL applied after GEN.
flowOut_killLast(in, gen, kill) == (in \cup gen) \ kill

flowOut(in, gen, kill) == (in \ kill) \cup gen

\* One round over all blocks: the new IN and OUT sets.
flowRound(preds, gen, kill, out) ==
  LET in2 == [i \in 1..Len(gen) |-> flowIn(i, preds, out)]
  IN  [in |-> in2, out |-> [i \in 1..Len(gen) |-> flowOut(in2[i], gen[i], kill[i])]]

RECURSIVE forwardFlowAnalysis(_, _, _, _, _)
forwardFlowAnalysis(preds, gen, kill, in, out) ==
  LET r == flowRound(preds, gen, kill, out)
  IN  IF r.in = in /\ r.out = out THEN [in |-> in, out |-> out]
      ELSE forwardFlowAnalysis(preds, gen, kill, r.in, r.out)

(***************************************************************************)
(* Placement.                                                              *)
(***************************************************************************)
\* isJump(stmt): a GotoStmt, or a call of PRIM_RETURN
isJump(st) == st.op = "goto" \/ st.op = "return"

\* new CallExpr(autoDestroyMap.get(sym->type), sym)
autoDestroyCall(sym) == Stmt("autoDestroy", sym, None)

\* A wrong insertBefore: the call takes the place of the statement.
insertBefore_replace(list, p, call) == SubSeq(list, 1, p - 1) \o <<call>> \o SubSeq(list, p + 1, Len(list))

\* stmt->insertBefore(call), stmt being element p of the statement list
insertBefore(list, p, call) == SubSeq(list, 1, p - 1) \o <<call>> \o SubSeq(list, p, Len(list))

\* insertAfter with the call put at the end of the list instead.
insertAfter_atEnd(list, p, call) == list \o <<call>>

\* stmt->insertAfter(call): the new call becomes the statement next to stmt
insertAfter(list, p, call) == SubSeq(list, 1, p) \o <<call>> \o SubSeq(list, p + 1, Len(list))

\* get(j) reading the bit one place further on.
bitGet_offByOne(bits, j) == (j + 1) \in bits

\* to_kill->get(j)
bitGet(bits, j) == j \in bits

\* The loop of insertAutoDestroy(BasicBlock&, ...) from index j on; p is where
\* stmt stands in the list now.
RECURSIVE insertLoop(_, _, _, _, _, _)
insertLoop(list, p, isjump, bits, syms, j) ==
  IF j > Len(syms) THEN list
  ELSE IF ~bitGet(bits, j) THEN insertLoop(list, p, isjump, bits, syms, j + 1)
  ELSE IF isjump
       THEN insertLoop(insertBefore(list, p, autoDestroyCall(syms[j])), p + 1, isjump, bits, syms, j + 1)
       ELSE insertLoop(insertAfter(list, p, autoDestroyCall(syms[j])), p, isjump, bits, syms, j + 1)

\* insertAutoDestroy(BasicBlock& bb, BitVec* to_kill, const SymbolVector&):
\* list is the block's region of the body, bbexprs is bb.exprs.  Before the
\* first insertion the last statement of the block ends the region.
insertAutoDestroyBB(list, bbexprs, bits, syms) ==
  IF Len(bbexprs) = 0 THEN list
  ELSE insertLoop(list, Len(list), isJump(bbexprs[Len(bbexprs)]), bits, syms, 1)

\* BitVec* to_kill = *IN[i] + *GEN[i] - *KILL[i] - *OUT[i];
\* A wrong to_kill: what is owned at the end of the block, OUT not taken off.
toKill_ownedAtEnd(in, gen, kill, out) == (in \cup gen) \ kill

toKill(in, gen, kill, out) == ((in \cup gen) \ kill) \ out

(***************************************************************************)
(* The functions the pass is run on.  A shape is a flow graph: the         *)
(* predecessors of each block and the statement that ends it.              *)
(***************************************************************************)
Single  == [n |-> 1, ins |-> <<{}>>, term |-> <<"return">>]

Chain   == [n |-> 2, ins |-> <<{}, {1}>>, term |-> <<"none", "return">>]

\* entry (cond) -> T, F -> join (return)
Diamond == [n |-> 4, ins |-> <<{}, {1}, {1}, {2, 3}>>, term |-> <<"cond", "none", "none", "return">>]

\* Two records and a local that is no record (extractSymbols skips it).
DefsXY  == <<Def("x", "record"), Def("y", "record"), Def("n", "other")>>

DefsXYZ == <<Def("x", "record"), Def("y", "record"), Def("z", "record")>>

\* A record variable defined outside the function (a global): a reference to
\* it has no DefExpr in fn, so symbolIndex does not know it.
Global == "g"

\* What the right side of a bitwise move can name.
Operands(ds) == SymSet(symbolsOf(ds)) \cup {Global}

Records(ds) == SymSet(symbolsOf(ds))

\* The statements of a body that the scan can tell apart: the left side of a
\* move and the operand of a constructor or destructor are records (the scan
\* skips a reference to any other symbol).
BodyStmts(ds) ==
  {Stmt("ctor", a, None) : a \in Records(ds)}
  \cup {Stmt("dtor", a, None) : a \in Records(ds)}
  \cup {Stmt("move", a, b) : a \in Records(ds), b \in Operands(ds)}
  \cup {Stmt("call", None, None)}

SeqsUpTo(A, n) == UNION {[1..k -> A] : k \in 0..n}

\* Where a flat statement list is cut into n blocks.
Cuts(n, len) == {c \in [0..n -> 0..len] : /\ c[0] = 0
                                          /\ c[n] = len
                                          /\ \A i \in 1..n : c[i - 1] <= c[i]}

Terminator(kind, ret) ==
  IF kind = "none" THEN <<>>
  ELSE IF kind = "return" THEN <<Stmt("return", ret, None)>>
  ELSE <<Stmt(kind, None, None)>>

Blocks(sh, flat, c, ret) ==
  [i \in 1..sh.n |-> SubSeq(flat, c[i - 1] + 1, c[i]) \o Terminator(sh.term[i], ret)]

\* The functions of Spec: straight-line bodies of one or two blocks.
Families == {<<Single, DefsXY>>, <<Chain, DefsXY>>, <<Single, DefsXYZ>>}

\* The functions of SpecDiamond: a body with one conditional.
DiamondFamilies == {<<Diamond, DefsXY>>}

InitFn(sh, ds, flat, c, ret, warn) ==
  /\ proto = FALSE
  /\ pass = 1
  /\ defs = ds
  /\ exprs = Blocks(sh, flat, c, ret)
  /\ ins = sh.ins
  /\ ast = Blocks(sh, flat, c, ret)
  /\ fWarnOwnership = warn
  /\ pc = "extract"
  /\ bi = 1
  /\ si = 1
  /\ symbols = <<>>
  /\ aliases = <<>>
  /\ heap = <<>>
  /\ GEN = <<>>
  /\ KILL = <<>>
  /\ IN_ = <<>>
  /\ OUT = <<>>
  /\ to_kill = {}
  /\ warns = <<>>
  /\ err = ""

InitOf(fams) ==
  \E fam \in fams, warn \in BOOLEAN :
    \E flat \in SeqsUpTo(BodyStmts(fam[2]), MaxStmts), ret \in Records(fam[2]) \cup {None} :
      \E c \in Cuts(fam[1].n, Len(flat)) :
        InitFn(fam[1], fam[2], flat, c, ret, warn)

Init == InitOf(Families)

InitDiamond == InitOf(DiamondFamilies)

(***************************************************************************)
(* insertAutoDestroy(FnSymbol* fn), step by step.                          *)
(***************************************************************************)
nbbs == Len(exprs)

\* The next expression of the scan at or after expression s of block b, as
\* <<block, expression>>; <<nbbs + 1, 1>> when the loops are over.
RECURSIVE ScanPos(_, _)
ScanPos(b, s) ==
  IF b > nbbs THEN <<nbbs + 1, 1>>
  ELSE IF s <= Len(exprs[b]) THEN <<b, s>>
  ELSE ScanPos(b + 1, 1)

\* insertAutoDestroy(): a function that is only a prototype has no body and
\* is passed over.
SkipPrototype ==
  /\ pc = "extract"
  /\ proto
  /\ pc' = "done"
  /\ UNCHANGED <<proto, pass, defs, exprs, ins, ast, fWarnOwnership, bi, si, symbols, aliases, heap, GEN, KILL, IN_, OUT, to_kill, warns, err>>

\* extractSymbols and the four createFlowSet calls, up to the first
\* expression of computeTransitions(fn, ...).
ExtractSymbols ==
  /\ pc = "extract"
  /\ ~proto
  /\ symbols' = symbolsOf(defs)
  /\ aliases' = initAliases(symbolsOf(defs))
  /\ heap' = initHeap(symbolsOf(defs))
  /\ GEN' = createFlowSet(nbbs)
  /\ KILL' = createFlowSet(nbbs)
  /\ IN_' = createFlowSet(nbbs)
  /\ OUT' = createFlowSet(nbbs)
  /\ bi' = ScanPos(1, 1)[1]
  /\ si' = ScanPos(1, 1)[2]
  /\ pc' = IF ScanPos(1, 1)[1] > nbbs THEN "flow" ELSE "scan"
  /\ UNCHANGED <<proto, pass, defs, exprs, ins, ast, fWarnOwnership, to_kill, warns, err>>

ScanState == [gen |-> GEN[bi], kill |-> KILL[bi], al |-> aliases, hp |-> heap, w |-> warns, err |-> ""]

\* computeTransitions on expression si of block bi.
ScanExpr ==
  /\ pc = "scan"
  /\ \E S \in computeTransitionsExpr(exprs[bi][si], ScanState) :
       /\ GEN' = [GEN EXCEPT ![bi] = S.gen]
       /\ KILL' = [KILL EXCEPT ![bi] = S.kill]
       /\ aliases' = S.al
       /\ heap' = S.hp
       /\ warns' = S.w
       /\ err' = S.err
       /\ IF S.err # ""
          THEN /\ pc' = "abort"
               /\ UNCHANGED <<bi, si>>
          ELSE /\ bi' = ScanPos(bi, si + 1)[1]
               /\ si' = ScanPos(bi, si + 1)[2]
               /\ pc' = IF ScanPos(bi, si + 1)[1] > nbbs THEN "flow" ELSE "scan"
  /\ UNCHANGED <<proto, pass, defs, exprs, ins, ast, fWarnOwnership, symbols, IN_, OUT, to_kill>>

\* BasicBlock::forwardFlowAnalysis(fn, GEN, KILL, IN, OUT, true)
ForwardFlow ==
  /\ pc = "flow"
  /\ IN_' = forwardFlowAnalysis(ins, GEN, KILL, IN_, OUT).in
  /\ OUT' = forwardFlowAnalysis(ins, GEN, KILL, IN_, OUT).out
  /\ pc' = "place"
  /\ bi' = 1
  /\ UNCHANGED <<proto, pass, defs, exprs, ins, ast, fWarnOwnership, si, symbols, aliases, heap, GEN, KILL, to_kill, warns, err>>

\* destroyAliasVectorMap: every list is reached through the first key that
\* still points at it and deleted once.  A key left pointing at a list that
\* mergeAliases deleted makes the walk read and delete freed memory when that
\* key comes first in the map (pointer order): the teardown then either gets
\* through or crashes.  The result is the reason of the abort, "" for none.
destroyAliasVectorMap(al, hp) ==
  {""} \cup (IF \E s \in DOMAIN al : Dangling(hp, al[s]) THEN {"SIGSEGV"} ELSE {})

\* One turn of the loop of insertAutoDestroy(fn, GEN, KILL, IN, OUT, symbols);
\* after the last block the maps and sets are released and the pass is done.
PlaceBlock ==
  /\ pc = "place"
  /\ bi <= nbbs
  /\ to_kill' = toKill(IN_[bi], GEN[bi], KILL[bi], OUT[bi])
  /\ ast' = [ast EXCEPT ![bi] = insertAutoDestroyBB(@, exprs[bi], toKill(IN_[bi], GEN[bi], KILL[bi], OUT[bi]), symbols)]
  /\ bi' = bi + 1
  /\ \E e \in (IF bi = nbbs THEN destroyAliasVectorMap(aliases, heap) ELSE {""}) :
       /\ err' = e
       /\ pc' = IF bi < nbbs THEN "place" ELSE IF e = "" THEN "done" ELSE "abort"
  /\ UNCHANGED <<proto, pass, defs, exprs, ins, fWarnOwnership, si, symbols, aliases, heap, GEN, KILL, IN_, OUT, warns>>

Next == ExtractSymbols \/ ScanExpr \/ ForwardFlow \/ PlaceBlock

Spec == Init /\ [][Next]_vars

SpecDiamond == InitDiamond /\ [][Next]_vars

\* The pass run once more over the function it has just processed: the basic
\* blocks are built again, from the body as the first run left it.  An
\* inserted call is no jump, so the blocks and their edges are the same.
SecondRun ==
  /\ pc = "done"
  /\ pass = 1
  /\ pass' = 2
  /\ exprs' = ast
  /\ pc' = "extract"
  /\ bi' = 1
  /\ si' = 1
  /\ symbols' = <<>>
  /\ aliases' = <<>>
  /\ heap' = <<>>
  /\ GEN' = <<>>
  /\ KILL' = <<>>
  /\ IN_' = <<>>
  /\ OUT' = <<>>
  /\ to_kill' = {}
  /\ err' = ""
  /\ UNCHANGED <<proto, defs, ins, ast, fWarnOwnership, warns>>

NextTwice == Next \/ SecondRun

SpecTwice == Init /\ [][NextTwice]_vars

(***************************************************************************)
(* The placement step on its own: insertAutoDestroy(bb, to_kill, symbols)  *)
(* called on one block with any bit-vector over three symbols.  A jump     *)
(* ends the block it is in, so it can only be the last statement.          *)
(***************************************************************************)
PlaceBody == {Stmt("call", None, None), Stmt("ctor", "x", None), Stmt("move", "y", "x"), Stmt("dtor", "x", None)}

PlaceEnds == {<<>>, <<Stmt("goto", None, None)>>, <<Stmt("cond", None, None)>>,
              <<Stmt("return", None, None)>>, <<Stmt("return", "x", None)>>}

InitPlace ==
  \E body \in SeqsUpTo(PlaceBody, MaxBlockLen), end \in PlaceEnds :
    /\ proto = FALSE
    /\ pass = 1
    /\ defs = DefsXYZ
    /\ exprs = <<body \o end>>
    /\ ins = <<{}>>
    /\ ast = <<body \o end>>
    /\ fWarnOwnership = FALSE
    /\ pc = "call"
    /\ bi = 1
    /\ si = 1
    /\ symbols = symbolsOf(DefsXYZ)
    /\ aliases = initAliases(symbolsOf(DefsXYZ))
    /\ heap = initHeap(symbolsOf(DefsXYZ))
    /\ GEN = createFlowSet(1)
    /\ KILL = createFlowSet(1)
    /\ IN_ = createFlowSet(1)
    /\ OUT = createFlowSet(1)
    /\ to_kill = {}
    /\ warns = <<>>
    /\ err = ""

PlaceCall ==
  /\ pc = "call"
  /\ \E bits \in SUBSET (1..Len(symbols)) :
       /\ to_kill' = bits
       /\ ast' = [ast EXCEPT ![bi] = insertAutoDestroyBB(@, exprs[bi], bits, symbols)]
  /\ pc' = "done"
  /\ UNCHANGED <<proto, pass, defs, exprs, ins, fWarnOwnership, bi, si, symbols, aliases, heap, GEN, KILL, IN_, OUT, warns, err>>

NextPlace == PlaceCall

SpecPlace == InitPlace /\ [][NextPlace]_vars

\* The placement loop on its own: insertAutoDestroy(fn, GEN, KILL, IN, OUT,
\* symbols) on a one-block function with any GEN, KILL and IN over three
\* symbols, and OUT the value the forward analysis gives for them.
InitKill ==
  \E body \in SeqsUpTo(PlaceBody, MaxBlockLen), end \in PlaceEnds :
    \E in \in SUBSET (1..Len(DefsXYZ)), gen \in SUBSET (1..Len(DefsXYZ)), kill \in SUBSET (1..Len(DefsXYZ)) :
      /\ proto = FALSE
      /\ pass = 1
      /\ defs = DefsXYZ
      /\ exprs = <<body \o end>>
      /\ ins = <<{}>>
      /\ ast = <<body \o end>>
      /\ fWarnOwnership = FALSE
      /\ pc = "place"
      /\ bi = 1
      /\ si = 1
      /\ symbols = symbolsOf(DefsXYZ)
      /\ aliases = initAliases(symbolsOf(DefsXYZ))
      /\ heap = initHeap(symbolsOf(DefsXYZ))
      /\ GEN = <<gen>>
      /\ KILL = <<kill>>
      /\ IN_ = <<in>>
      /\ OUT = <<flowOut(in, gen, kill)>>
      /\ to_kill = {}
      /\ warns = <<>>
      /\ err = ""

NextKill == PlaceBlock

SpecKill == InitKill /\ [][NextKill]_vars

\* A function that is only a prototype: flagged, without a body.
InitPrototype ==
  /\ proto = TRUE
  /\ pass = 1
  /\ defs = <<>>
  /\ exprs = <<>>
  /\ ins = <<>>
  /\ ast = <<>>
  /\ fWarnOwnership \in BOOLEAN
  /\ pc = "extract"
  /\ bi = 1
  /\ si = 1
  /\ symbols = <<>>
  /\ aliases = <<>>
  /\ heap = <<>>
  /\ GEN = <<>>
  /\ KILL = <<>>
  /\ IN_ = <<>>
  /\ OUT = <<>>
  /\ to_kill = {}
  /\ warns = <<>>
  /\ err = ""

\* The edits of the body: the placement step on any block with any
\* bit-vector, and the driver on a prototype.
InitFrame == InitPlace \/ InitPrototype

NextFrame == PlaceCall \/ SkipPrototype

SpecFrame == InitFrame /\ [][NextFrame]_vars

(***************************************************************************)
(* The dataflow on its own: forwardFlowAnalysis round by round, on any     *)
(* control-flow graph whose entry has no predecessor (the entry block is   *)
(* where the body starts; a loop opens a block of its own) and any GEN and *)
(* KILL.  The operations are bitwise, one bit shows them all.              *)
(***************************************************************************)
FlowBits == {1}

InitFlow ==
  \E n \in 1..MaxFlowBlocks :
    \E preds \in [1..n -> SUBSET (1..n)], gen \in [1..n -> SUBSET FlowBits], kill \in [1..n -> SUBSET FlowBits] :
      /\ preds[Entry] = {}
      /\ proto = FALSE
      /\ pass = 1
      /\ defs = <<>>
      /\ exprs = [i \in 1..n |-> <<>>]
      /\ ins = preds
      /\ ast = [i \in 1..n |-> <<>>]
      /\ fWarnOwnership = FALSE
      /\ pc = "flowiter"
      /\ bi = 1
      /\ si = 1
      /\ symbols = <<>>
      /\ aliases = <<>>
      /\ heap = <<>>
      /\ GEN = gen
      /\ KILL = kill
      /\ IN_ = createFlowSet(n)
      /\ OUT = createFlowSet(n)
      /\ to_kill = {}
      /\ warns = <<>>
      /\ err = ""

\* One turn of the loop of forwardFlowAnalysis: it ends when a round changes
\* nothing.
FlowRound ==
  /\ pc = "flowiter"
  /\ IN_' = flowRound(ins, GEN, KILL, OUT).in
  /\ OUT' = flowRound(ins, GEN, KILL, OUT).out
  /\ pc' = IF flowRound(ins, GEN, KILL, OUT) = [in |-> IN_, out |-> OUT] THEN "flowdone" ELSE "flowiter"
  /\ UNCHANGED <<proto, pass, defs, exprs, ins, ast, fWarnOwnership, bi, si, symbols, aliases, heap, GEN, KILL, to_kill, warns, err>>

NextFlow == FlowRound

SpecFlow == InitFlow /\ [][NextFlow]_vars

(***************************************************************************)
(* Properties of the placement step.                                       *)
(***************************************************************************)
IsAuto(st) == st.op = "autoDestroy"

\* The auto-destroy calls of a statement list, in the order they stand.
AutoCalls(list) == SelectSeq(list, IsAuto)

\* How many auto-destroy calls of the list target symbol s.
CallsOn(list, s) == Len(SelectSeq(list, LAMBDA st : st = autoDestroyCall(s)))

\* Where the last statement the block had before the pass stands in the list.
LastPos(list) == CHOOSE k \in 1..Len(list) : /\ ~IsAuto(list[k])
                                             /\ \A m \in (k + 1)..Len(list) : IsAuto(list[m])

\* The symbol indices of the inserted calls, in statement order.
CallOrder(list) == [k \in 1..Len(AutoCalls(list)) |-> symbolIndex(AutoCalls(list)[k].a)]

Ascending(q) == \A k \in 1..Len(q) : \A m \in 1..Len(q) : k < m => q[k] < q[m]

Descending(q) == \A k \in 1..Len(q) : \A m \in 1..Len(q) : k < m => q[k] > q[m]

LastStmt(b) == exprs[b][Len(exprs[b])]

\* One call per set bit of to_kill, on that bit's symbol, and no other call.
OneCallPerBit(b) ==
  /\ Len(AutoCalls(ast[b])) = Cardinality(to_kill)
  /\ \A j \in 1..Len(symbols) : CallsOn(ast[b], symbols[j]) = IF j \in to_kill THEN 1 ELSE 0

\* C4 as claimed: for every block, the empty one included, the placement step
\* inserts exactly one call per set bit of to_kill, on symbols[i] for bit i,
\* and none for a clear bit.
C4_CallPerBitEveryBlock == pc = "done" => OneCallPerBit(1)

\* C4: for every block with a non-empty expression list the placement step
\* inserts exactly one call per set bit of to_kill, on symbols[i] for bit i,
\* and none for a clear bit; a block with an empty expression list gets no
\* call whatever to_kill holds.
C4_CallPerBitNonEmptyBlock ==
  pc = "done" => IF exprs[1] = <<>> THEN ast[1] = <<>> ELSE OneCallPerBit(1)

C4_Witness ==
  /\ pc = "done"
  /\ exprs[1] # <<>>
  /\ to_kill = {1, 3}
  /\ Len(AutoCalls(ast[1])) = 2

\* C5: in a non-empty block with a non-empty to_kill, every inserted call
\* stands before the block's last statement if and only if that statement is
\* an unconditional branch, a conditional branch or a return; otherwise every
\* call stands after it.
C5_BeforeEveryJump ==
  (pc = "done" /\ exprs[1] # <<>> /\ to_kill # {}) =>
    \A k \in 1..Len(ast[1]) :
      IsAuto(ast[1][k]) =>
        IF LastStmt(1).op \in {"goto", "cond", "return"}
        THEN k < LastPos(ast[1])
        ELSE k > LastPos(ast[1])

\* C6 as claimed: the calls inserted into one block stand in ascending
\* symbol-index order, before a jump and after a non-jump alike.
C6_AscendingOrder == pc = "done" => Ascending(CallOrder(ast[1]))

\* C6: the calls inserted before a terminating goto or return stand in
\* ascending symbol-index order; the calls inserted after any other last
\* statement stand in descending symbol-index order.
C6_AscendingBeforeDescendingAfter ==
  (pc = "done" /\ exprs[1] # <<>>) =>
    IF LastStmt(1).op \in {"goto", "return"}
    THEN Ascending(CallOrder(ast[1]))
    ELSE Descending(CallOrder(ast[1]))

C6_Witness ==
  /\ pc = "done"
  /\ exprs[1] # <<>>
  /\ LastStmt(1).op = "call"
  /\ CallOrder(ast[1]) = <<3, 2, 1>>

(***************************************************************************)
(* Properties of the whole pass on one function.                           *)
(***************************************************************************)
Succs(b) == {c \in 1..nbbs : b \in ins[c]}

\* The control-flow paths from the entry block to a block without successor
\* (the shapes have no cycle, so no path is longer than nbbs).
Paths ==
  {p \in UNION {[1..k -> 1..nbbs] : k \in 1..nbbs} :
     /\ p[1] = Entry
     /\ Succs(p[Len(p)]) = {}
     /\ \A i \in 1..(Len(p) - 1) : p[i] \in ins[p[i + 1]]}

RECURSIVE PathStmts(_)
PathStmts(p) == IF p = <<>> THEN <<>> ELSE ast[Head(p)] \o PathStmts(Tail(p))

\* Ownership as the program has it when it runs a statement list.  objs is
\* the set of heap states alive, each given as the set of symbols that share
\* it; ever holds the symbols that were owned at some time; leak says a heap
\* state lost its last symbol without a release; twice says a symbol that was
\* owned before was released while it owned nothing.
Forget(objs, a) == {O \ {a} : O \in objs}

OwnStart == [objs |-> {}, ever |-> {}, leak |-> FALSE, twice |-> FALSE]

OwnStep(st, R) ==
  IF st.op = "ctor"
  THEN [R EXCEPT !.objs = (Forget(@, st.a) \ {{}}) \cup {{st.a}},
                 !.ever = @ \cup {st.a},
                 !.leak = @ \/ {} \in Forget(R.objs, st.a)]
  ELSE IF st.op = "move" /\ st.a # st.b
  THEN LET rest == Forget(R.objs, st.a) \ {{}}
       IN  [R EXCEPT !.objs = {IF st.b \in O THEN O \cup {st.a} ELSE O : O \in rest},
                     !.ever = IF \E O \in rest : st.b \in O THEN @ \cup {st.a} ELSE @,
                     !.leak = @ \/ {} \in Forget(R.objs, st.a)]
  ELSE IF st.op \in {"dtor", "return", "autoDestroy"} /\ st.a # None
  THEN IF \E O \in R.objs : st.a \in O
       THEN [R EXCEPT !.objs = {O \in @ : st.a \notin O}]
       ELSE [R EXCEPT !.twice = @ \/ st.a \in R.ever]
  ELSE R

RECURSIVE OwnRun(_, _)
OwnRun(list, R) == IF list = <<>> THEN R ELSE OwnRun(Tail(list), OwnStep(Head(list), R))

\* C1: after the pass has run on a function, along every path from the entry
\* to a return every symbol that became owned is released exactly once before
\* the exit: nothing owned reaches the exit and nothing is destroyed twice.
C1_ReleasedExactlyOnce ==
  pc = "done" =>
    \A p \in Paths :
      /\ OwnRun(PathStmts(p), OwnStart).objs = {}
      /\ ~OwnRun(PathStmts(p), OwnStart).leak
      /\ ~OwnRun(PathStmts(p), OwnStart).twice

Ix(s) == symbolIndex(s)

\* Scenario A: move x, ctor(); return
ScenarioA == <<<<Stmt("ctor", "x", None), Stmt("return", None, None)>>>>

\* C2: on scenario A the pass computes GEN = {x}, KILL = {}, IN = {},
\* OUT = {x}, need = {x} and inserts one auto-destroy call on x right before
\* the return.
C2_ScenarioA ==
  (pc = "done" /\ exprs = ScenarioA) =>
    /\ GEN[1] = {Ix("x")}
    /\ KILL[1] = {}
    /\ IN_[1] = {}
    /\ OUT[1] = {Ix("x")}
    /\ to_kill = {Ix("x")}
    /\ ast[1] = <<Stmt("ctor", "x", None), autoDestroyCall("x"), Stmt("return", None, None)>>

\* Scenario D: x is constructed in the entry block, destroyed in T, left
\* alone in F.
ScenarioD ==
  << <<Stmt("ctor", "x", None), Stmt("cond", None, None)>>,
     <<Stmt("dtor", "x", None)>>,
     <<Stmt("call", None, None)>>,
     <<Stmt("return", None, None)>> >>

\* C3: on scenario D the forward flow gives IN[join] = {} and the pass inserts
\* one auto-destroy call on x at the end of F and none in entry, T and join.
C3_ScenarioD ==
  (pc = "done" /\ exprs = ScenarioD) =>
    /\ IN_[4] = {}
    /\ ast[3] = <<Stmt("call", None, None), autoDestroyCall("x")>>
    /\ ast[1] = exprs[1]
    /\ ast[2] = exprs[2]
    /\ ast[4] = exprs[4]

\* Scenario E: move x, ctor(); ~R(x); move x, ctor(); return
ScenarioE ==
  <<<<Stmt("ctor", "x", None), Stmt("dtor", "x", None), Stmt("ctor", "x", None), Stmt("return", None, None)>>>>

\* C7: scenario E is analysed to the end without an internal error, with
\* OUT = {x} and one auto-destroy call on x right before the return.
C7_ScenarioE ==
  exprs = ScenarioE =>
    /\ pc # "abort"
    /\ pc = "done" =>
         /\ OUT[1] = {Ix("x")}
         /\ ast[1] = <<Stmt("ctor", "x", None), Stmt("dtor", "x", None), Stmt("ctor", "x", None),
                       autoDestroyCall("x"), Stmt("return", None, None)>>

\* Block b constructs s, later calls the explicit destructor on s, and gives
\* s no value again after that.
CtorThenDtor(b, s) ==
  \E j \in 1..Len(exprs[b]), k \in 1..Len(exprs[b]) :
    /\ j < k
    /\ exprs[b][j] = Stmt("ctor", s, None)
    /\ exprs[b][k] = Stmt("dtor", s, None)
    /\ \A m \in (k + 1)..Len(exprs[b]) : ~(exprs[b][m].op \in {"ctor", "move"} /\ exprs[b][m].a = s)

\* C8: a symbol constructed and then explicitly destroyed in block b (and not
\* constructed again) is unowned at the end of b: it is not in OUT[b], a
\* successor reached only from b does not have it in IN, and b gets no
\* auto-destroy call for it.
C8_UnownedAfterDestroy ==
  pc = "done" =>
    \A b \in 1..nbbs : \A s \in SymSet(symbols) :
      CtorThenDtor(b, s) =>
        /\ Ix(s) \notin OUT[b]
        /\ \A c \in Succs(b) : ins[c] = {b} => Ix(s) \notin IN_[c]
        /\ CallsOn(ast[b], s) = 0

\* The members of the list aliases[s] points at.
MembersIn(al, hp, s) == {hp[al[s]].items[k] : k \in 1..Len(hp[al[s]].items)}

\* C9: a bitwise move `move y, x` met in block b while the GEN[b] bits of x
\* and of y are clear emits exactly one warning, anchored at x, when
\* fWarnOwnership is on and none when it is off; the GEN[b] bit of y stays
\* clear, the cliques of x and y are merged and the analysis does not abort.
C9_UninitCopy ==
  [][\A y \in SymSet(symbols), x \in SymSet(symbols) :
       (/\ pc = "scan"
        /\ x # y
        /\ exprs[bi][si] = Stmt("move", y, x)
        /\ Ix(x) \notin GEN[bi]
        /\ Ix(y) \notin GEN[bi])
       => /\ pc' # "abort"
          /\ warns' = IF fWarnOwnership THEN Append(warns, x) ELSE warns
          /\ Ix(y) \notin GEN'[bi]
          /\ MembersIn(aliases', heap', x) = MembersIn(aliases', heap', y)
          /\ MembersIn(aliases', heap', x) = MembersIn(aliases, heap, x) \cup MembersIn(aliases, heap, y)]_vars

\* Expression k of block b is reached while s is neither owned on entry to b
\* nor given a value earlier in b.
NeverOwnedAt(b, k, s) ==
  /\ Ix(s) \notin IN_[b]
  /\ \A j \in 1..(k - 1) : ~(exprs[b][j].op \in {"ctor", "move"} /\ exprs[b][j].a = s)

\* C10: when the destructor recognizer fires (an explicit destructor call or
\* a return) on a tracked symbol that is not owned at that point, the
\* analysis aborts with an internal error instead of completing.
C10_AbortOnUnownedDestroy ==
  pc = "done" =>
    \A b \in 1..nbbs : \A k \in 1..Len(exprs[b]) :
      (exprs[b][k].op \in {"dtor", "return"} /\ Tracked(exprs[b][k].a))
        => ~NeverOwnedAt(b, k, exprs[b][k].a)

(***************************************************************************)
(* Properties of a second run, of the frame and of the dataflow.           *)
(***************************************************************************)
\* Nothing owned is left at the end of path p through the body.
UnownedAtExit(p) == OwnRun(PathStmts(p), OwnStart).objs = {}

\* C11: a second run of the pass over the output of a first run inserts no
\* new auto-destroy call in any block, and after the first run every tracked
\* symbol is unowned at every exit of the function.
C11_SecondRunNoOp ==
  /\ (pc = "done" /\ pass = 2) => ast = exprs
  /\ (pc = "done" /\ pass = 1) => \A p \in Paths : UnownedAtExit(p)

\* The statements of a list that are not auto-destroy calls.
Originals(list) == SelectSeq(list, LAMBDA st : ~IsAuto(st))

\* C12: the only change the pass makes to a body is the insertion of
\* auto-destroy calls: every statement present before is still present, in
\* the same block and in the same relative order, and the body of a
\* prototype is the one it was.
C12_OnlyInsertions ==
  /\ Len(ast) = Len(exprs)
  /\ \A b \in 1..nbbs : Originals(ast[b]) = exprs[b]
  /\ proto => ast = exprs

\* Calls were inserted in front of the jump of a block of several statements.
C12_Witness ==
  /\ pc = "done"
  /\ ~proto
  /\ Len(exprs[1]) >= 2
  /\ isJump(LastStmt(1))
  /\ Len(AutoCalls(ast[1])) >= 2
  /\ Originals(ast[1]) = exprs[1]

\* The two equations of the dataflow, at every block.
FlowEquations ==
  \A b \in 1..Len(GEN) :
    /\ OUT[b] = (IN_[b] \ KILL[b]) \cup GEN[b]
    /\ IN_[b] = IF ins[b] = {} THEN {} ELSE {x \in FlowBits : \A q \in ins[b] : x \in OUT[q]}

\* A round has enlarged the sets: none has lost a bit and one has gained one.
FlowGrows ==
  /\ \A b \in 1..Len(GEN) : IN_[b] \subseteq IN_'[b] /\ OUT[b] \subseteq OUT'[b]
  /\ <<IN_', OUT'>> # <<IN_, OUT>>

\* C13: on every control-flow graph and for every GEN and KILL the forward
\* iteration started from empty sets comes to an end: a round that does not
\* end it enlarges the sets, which cannot grow beyond all bits of all blocks.
\* When it has ended, every block b has OUT[b] = (IN[b] \ KILL[b]) + GEN[b]
\* and IN[b] = the intersection of OUT[p] over its predecessors p, empty
\* without one.
C13_FlowTerminates ==
  [][/\ pc' = "flowiter" => FlowGrows
     /\ pc' = "flowdone" => FlowEquations']_vars

\* The iteration has ended on a graph with a loop and a join, with a bit
\* that came through the join.
C13_Witness ==
  /\ pc = "flowdone"
  /\ \E b \in 1..Len(GEN) : b \in ins[b] /\ Cardinality(ins[b]) >= 2 /\ IN_[b] # {}
  /\ \E b \in 1..Len(GEN) : KILL[b] # {} /\ IN_[b] # {} /\ OUT[b] = {}

(***************************************************************************)
(* Properties of the alias cliques.                                        *)
(***************************************************************************)
\* At some point of statement list l one heap state is shared by several
\* symbols.
SharedAlong(l) ==
  \E k \in 1..Len(l) : \E O \in OwnRun(SubSeq(l, 1, k), OwnStart).objs : Cardinality(O) >= 2

\* C14: a heap state shared by the members of an alias clique is destroyed
\* through exactly one of them before the last goes out of scope: along every
\* path on which a bitwise copy shares a heap state, nothing is left owned at
\* the exit (no leak) and nothing is destroyed when already released.
C14_CliqueReleasedOnce ==
  pc = "done" =>
    \A p \in Paths :
      SharedAlong(PathStmts(p)) =>
        /\ OwnRun(PathStmts(p), OwnStart).objs = {}
        /\ ~OwnRun(PathStmts(p), OwnStart).leak
        /\ ~OwnRun(PathStmts(p), OwnStart).twice

\* members(s): what the list behind aliases[s] holds.
members(s) == MembersIn(aliases, heap, s)

\* C15: after any sequence of bitwise moves processed by the scan the alias
\* map is a partition of the tracked symbols: every symbol s is in
\* members(s), and t in members(s) implies members(t) = members(s).
C15_AliasPartition ==
  pc # "abort" =>
    \A s \in SymSet(symbols) :
      /\ s \in members(s)
      /\ \A t \in members(s) : members(t) = members(s)

\* The scan stands at a `move y, x` that gets as far as mergeAliases.
MergeReached(y, x) ==
  /\ pc = "scan"
  /\ exprs[bi][si] = Stmt("move", y, x)
  /\ Ix(y) \notin GEN[bi]

NoDuplicates(q) == \A i \in 1..Len(q) : \A j \in 1..Len(q) : i # j => q[i] # q[j]

\* C16: for all tracked a and b, after mergeAliases(a, b) the clique of a is
\* the clique of b and is the union of the two cliques as they were before,
\* on a list that holds no symbol twice.
C16_MergeIsUnion ==
  [][\A y \in SymSet(symbols), x \in SymSet(symbols) :
       MergeReached(y, x) =>
         /\ pc' # "abort"
         /\ MembersIn(aliases', heap', x) = MembersIn(aliases', heap', y)
         /\ MembersIn(aliases', heap', x) = members(x) \cup members(y)
         /\ NoDuplicates(heap'[aliases'[x]].items)]_vars

\* C17: merging is idempotent: mergeAliases applied to two symbols that are
\* on one list already (a repeated `move y, x`, or `move x, x`) comes to an
\* end and leaves members(s) as it was for every tracked symbol s.
C17_MergeIdempotent ==
  [][\A y \in SymSet(symbols), x \in SymSet(symbols) :
       (MergeReached(y, x) /\ aliases[x] = aliases[y]) =>
         /\ pc' # "abort"
         /\ \A s \in SymSet(symbols) : MembersIn(aliases', heap', s) = members(s)]_vars

\* The expressions the scan visits before expression k of block b, as
\* <<block, expression>>.
ScannedBefore(b, k) ==
  {q \in (1..nbbs) \X (1..(MaxStmts + 1)) :
     /\ q[2] <= Len(exprs[q[1]])
     /\ q[1] < b \/ (q[1] = b /\ q[2] < k)}

\* The pairs of tracked symbols joined by the moves among positions P.
MovePairs(P) ==
  {{exprs[q[1]][q[2]].a, exprs[q[1]][q[2]].b} :
     q \in {r \in P : /\ exprs[r[1]][r[2]].op = "move"
                      /\ Tracked(exprs[r[1]][r[2]].a)
                      /\ Tracked(exprs[r[1]][r[2]].b)}}

\* The symbols joined to those of C by the pairs E, directly or in steps.
RECURSIVE JoinedTo(_, _)
JoinedTo(C, E) ==
  IF C \cup UNION {e \in E : e \cap C # {}} = C THEN C
  ELSE JoinedTo(C \cup UNION {e \in E : e \cap C # {}}, E)

\* C18: whenever the destructor recognizer fires on a tracked symbol r in
\* block b (and the analysis goes on), KILL[b] is set for every symbol joined
\* to r's clique by an earlier bitwise move, directly or transitively,
\* whichever member of the clique is the one destroyed or returned.
C18_KillWholeClique ==
  [][\A r \in SymSet(symbols) :
       (/\ pc = "scan"
        /\ exprs[bi][si].op \in {"dtor", "return"}
        /\ exprs[bi][si].a = r
        /\ pc' # "abort")
       => \A s \in JoinedTo({r}, MovePairs(ScannedBefore(bi, si))) : Ix(s) \in KILL'[bi]]_vars

(***************************************************************************)
(* Properties of the move recognizer across blocks.                        *)
(***************************************************************************)
\* Expression j of block b neither gives nor takes ownership.
Neutral(b, j) ==
  \/ exprs[b][j].op \in {"call", "goto", "cond"}
  \/ exprs[b][j].op = "return" /\ exprs[b][j].a = None

\* Expression k of block b is `move y, x` with x owned on entry to b, the
\* only expression of b that touches ownership and the only move in the
\* function that reads x.
MoveOfOwned(b, k, y, x) ==
  /\ x # y
  /\ exprs[b][k] = Stmt("move", y, x)
  /\ Ix(x) \in IN_[b]
  /\ \A j \in 1..Len(exprs[b]) : j # k => Neutral(b, j)
  /\ \A c \in 1..nbbs : \A j \in 1..Len(exprs[c]) :
        (exprs[c][j].op = "move" /\ exprs[c][j].b = x) => (c = b /\ j = k)

\* C19: `move y, x` copies the ownership state of x to y: when x is owned at
\* the move, be it because it was constructed in a predecessor block and is
\* owned on entry to the block (x in IN[b]) and not destroyed since, y is
\* owned at the end of the block (y in OUT[b]) and no uninitialized-copy
\* warning is emitted.
C19_MoveCopiesOwnership ==
  pc = "done" =>
    \A b \in 1..nbbs : \A k \in 1..Len(exprs[b]) :
      \A y \in SymSet(symbols), x \in SymSet(symbols) :
        MoveOfOwned(b, k, y, x) =>
          /\ Ix(y) \in OUT[b]
          /\ \A i \in 1..Len(warns) : warns[i] # x

\* The blocks of B and all blocks from which control can come to them.
RECURSIVE Ancestors(_)
Ancestors(B) ==
  IF B \cup UNION {ins[c] : c \in B} = B THEN B
  ELSE Ancestors(B \cup UNION {ins[c] : c \in B})

\* The expressions on some control-flow path that reaches expression k of
\* block b, as <<block, expression>>.
OnPathBefore(b, k) ==
  {q \in (1..nbbs) \X (1..(MaxStmts + 1)) :
     /\ q[2] <= Len(exprs[q[1]])
     /\ q[1] \in Ancestors(ins[b]) \/ (q[1] = b /\ q[2] < k)}

\* C20: alias cliques reflect only the bitwise copies on the analysed path:
\* once the scan is over, the KILL[b] bit of y is set only if block b holds a
\* destructor or return on y itself or on a symbol x joined to y by moves
\* that lie on a control-flow path reaching that destructor; a move on an
\* unrelated branch or in a later block does not get y killed in b.
C20_AliasesFollowPaths ==
  pc \in {"flow", "place", "done"} =>
    \A b \in 1..nbbs : \A y \in SymSet(symbols) :
      Ix(y) \in KILL[b] =>
        \E k \in 1..Len(exprs[b]) :
          /\ exprs[b][k].op \in {"dtor", "return"}
          /\ Tracked(exprs[b][k].a)
          /\ y \in JoinedTo({exprs[b][k].a}, MovePairs(OnPathBefore(b, k)))

AssertionErrors ==
  {"INT_ASSERT(gen->get(index) == false)", "INT_ASSERT(gen->get(lindex) == false)",
   "INT_ASSERT(kill->get(index) == false)", "out_of_range"}

\* C22: every internal assertion of the analysis of one function is
\* evaluated during extraction or the transition scan, before the first
\* auto-destroy call is inserted; hence when the analysis of a function
\* aborts, the body of the function is exactly as it was before the pass
\* started on it.
C22_AbortLeavesBody ==
  [][pc' = "abort" =>
       /\ err' \in AssertionErrors =>
            (pc = "scan" /\ \A b \in 1..nbbs : AutoCalls(ast[b]) = <<>>)
       /\ ast' = exprs]_vars

\* An assertion has stopped the scan in the second block, after the first
\* block gave a symbol its value.
C22_Witness ==
  /\ pc = "abort"
  /\ err \in AssertionErrors
  /\ bi = 2
  /\ GEN[1] # {}
  /\ ast = exprs
====
